---- MODULE Spec2Model ----
(***************************************************************************)
(* Model of the job-automation prototype: résumé / questionnaire           *)
(* ingestion (services/ingestion.py), the job evaluator                    *)
(* (services/evaluation.py), the application submitter                     *)
(* (services/application.py) and their endpoints (app/main.py).            *)
(*                                                                         *)
(* Numbers.  Scores and deviations are floats rounded to three decimals;   *)
(* they are modelled as integers in thousandths (0.667 is 667).  Salaries  *)
(* are integers in an arbitrary unit.                                      *)
(*                                                                         *)
(* Optional values.  A Python value that may be None (a missing dict key,  *)
(* a NULL column) is a sequence of length at most one: <<>> is None and    *)
(* <<v>> is the value v.                                                   *)
(***************************************************************************)
EXTENDS Integers, Sequences, FiniteSets, TLC

VARIABLES
    settings,          \* the cached Settings instance (app/config.py)
    sample_job_file,   \* the file settings.sample_job_file names
    users,             \* table users: the set of user ids
    resumes,           \* table resumes, in insertion order
    questionnaires,    \* table questionnaire_responses, in insertion order
    listings,          \* table job_listings (committed rows), in insertion order
    calls,             \* the evaluate requests in flight, by slot
    nevals,            \* how many evaluate requests were started
    probe,             \* the last direct application of _score_job
    application_logs,  \* table application_logs (committed rows), in insertion order
    captcha_queue,     \* table captcha_queue (committed rows), in insertion order
    submit,            \* the submit request in flight
    nsubmits           \* how many submit requests were started

vars == <<settings, sample_job_file, users, resumes, questionnaires, listings,
          calls, nevals, probe, application_logs, captcha_queue, submit, nsubmits>>

db == <<users, resumes, questionnaires, listings>>

\* what the submit endpoint writes
submissions == <<application_logs, captcha_queue, submit, nsubmits>>

------------------------------------------------------------------------------
(* Bounds of the model *)

MaxStored == 2
MaxEvals == 2
MaxCalls == 2
MaxSubmits == 2

------------------------------------------------------------------------------
(* Optional values and Python truthiness *)

None == <<>>
Some(v) == <<v>>
IsNone(o) == o = <<>>
Val(o) == o[1]

\* bool(x) of an optional number: None and 0 are falsy
Truthy(o) == o # <<>> /\ o[1] # 0

\* Python's  a or b  on optional numbers
Or(a, b) == IF Truthy(a) THEN a ELSE b

Min(a, b) == IF a <= b THEN a ELSE b
Max(a, b) == IF a >= b THEN a ELSE b
Abs(a) == IF a >= 0 THEN a ELSE -a

Range(s) == {s[i] : i \in 1..Len(s)}

\* round(num / den, 3) in thousandths, for num >= 0 and den > 0: to the nearest
\* thousandth, an exact tie to the even one
RoundMilli(num, den) ==
    LET q == (1000 * num) \div den
        r == (1000 * num) % den
    IN  IF 2 * r < den THEN q
        ELSE IF 2 * r > den THEN q + 1
        ELSE IF q % 2 = 0 THEN q ELSE q + 1

------------------------------------------------------------------------------
(* Strings *)

\* str.lower on the strings of the model
Lower(s) ==
    CASE s = "Python" -> "python"
      [] s = "SQL" -> "sql"
      [] s = "AWS" -> "aws"
      [] s = "Remote" -> "remote"
      [] s = "Agile" -> "agile"
      [] OTHER -> s

LowerAll(S) == {Lower(s) : s \in S}

------------------------------------------------------------------------------
(* services/evaluation.py: scoring *)

\* An EvaluationContext: skills is a set of strings; preferences is an optional
\* value holding the questionnaire's preference vector, a dict read through the
\* keys "salary" (a dict with the keys "min" and "max") and "culture" (a list
\* of strings).  The keys "locations" and "remote_ok" of a preference vector
\* are never read by the evaluator and are left out.
EvaluationContext(skills, preferences) ==
    [skills |-> skills, preferences |-> preferences]

\* the dict {} : no key present
NoPreferences == [salary |-> None, culture |-> None]

\* dict.get(key, []) of a list-valued key
GetList(o) == IF IsNone(o) THEN <<>> ELSE Val(o)

\* SalaryDeviation with job_value falling back to 0 in place of target
SalaryDeviationZeroFallback(preferences, job) ==
    LET salary_pref == preferences.salary
    IN  IF IsNone(salary_pref) THEN 0
        ELSE
        LET desired_min == Val(salary_pref).min
            desired_max == Val(salary_pref).max
            job_min == job.salary_min
            job_max == job.salary_max
        IN  IF IsNone(job_min) /\ IsNone(job_max) THEN 500
            ELSE
            LET target == Or(desired_min, Or(desired_max, Or(job_min, Or(job_max, Some(0)))))
                job_value == Or(job_min, Or(job_max, Some(0)))
            IN  IF Val(target) = 0 THEN 0
                ELSE RoundMilli(Abs(Val(job_value) - Val(target)), Max(Val(target), 1))

\* JobEvaluator._salary_deviation, in thousandths
SalaryDeviation(preferences, job) ==
    LET salary_pref == preferences.salary
    IN  IF IsNone(salary_pref) THEN 0
        ELSE
        LET desired_min == Val(salary_pref).min
            desired_max == Val(salary_pref).max
            job_min == job.salary_min
            job_max == job.salary_max
        IN  IF IsNone(job_min) /\ IsNone(job_max) THEN 500
            ELSE
            LET target == Or(desired_min, Or(desired_max, Or(job_min, Or(job_max, Some(0)))))
                job_value == Or(job_min, Or(job_max, target))
            IN  IF Val(target) = 0 THEN 0
                ELSE RoundMilli(Abs(Val(job_value) - Val(target)), Max(Val(target), 1))

\* CultureAlignment with the job's culture set as the denominator
CultureAlignmentByJob(preferences, job) ==
    LET desired == LowerAll(Range(GetList(preferences.culture)))
        job_culture == LowerAll(Range(job.culture))
    IN  IF desired = {} \/ job_culture = {} THEN 0
        ELSE RoundMilli(Cardinality(desired \cap job_culture) * 2, Cardinality(job_culture) * 10)

\* JobEvaluator._culture_alignment, in thousandths: round(n / d * 0.2, 3)
CultureAlignment(preferences, job) ==
    LET desired == LowerAll(Range(GetList(preferences.culture)))
        job_culture == LowerAll(Range(job.culture))
    IN  IF desired = {} \/ job_culture = {} THEN 0
        ELSE RoundMilli(Cardinality(desired \cap job_culture) * 2, Cardinality(desired) * 10)

\* the locals of _score_job
ScoreJobSkills(job) == LowerAll(Range(job.skills))
ScoreOverlap(context, job) == context.skills \cap ScoreJobSkills(job)
ScoreGap(context, job) == ScoreJobSkills(job) \ context.skills

\* BaseScore counting the missing skills in place of the held ones
BaseScoreFromGap(context, job) ==
    IF ScoreJobSkills(job) = {} THEN <<0, 1>>
    ELSE <<Cardinality(ScoreGap(context, job)), Cardinality(ScoreJobSkills(job))>>

\* base_score as the fraction <<numerator, denominator>>
BaseScore(context, job) ==
    IF ScoreJobSkills(job) = {} THEN <<0, 1>>
    ELSE <<Cardinality(ScoreOverlap(context, job)), Cardinality(ScoreJobSkills(job))>>

\* ScoreJob with the gap penalty charged once, whatever the number of gap skills
ScoreJobFlatGapPenalty(context, job) ==
    LET base_score == BaseScore(context, job)
        salary_deviation == SalaryDeviation(Val(context.preferences), job)
        culture_bonus == CultureAlignment(Val(context.preferences), job)
        score == Min(RoundMilli(base_score[1], base_score[2]) + culture_bonus, 1000)
        deviation == salary_deviation + (IF ScoreGap(context, job) = {} THEN 0 ELSE 50)
    IN  <<score, deviation>>

\* ScoreJob without  score = min(score, 1.0)
ScoreJobUncapped(context, job) ==
    LET base_score == BaseScore(context, job)
        salary_deviation == SalaryDeviation(Val(context.preferences), job)
        culture_bonus == CultureAlignment(Val(context.preferences), job)
        score == RoundMilli(base_score[1], base_score[2]) + culture_bonus
        deviation == salary_deviation + Cardinality(ScoreGap(context, job)) * 50
    IN  <<score, deviation>>

\* JobEvaluator._score_job: <<score, deviation>>, in thousandths.  The culture
\* bonus is already a whole number of thousandths when it is added, so
\* rounding the sum rounds the base score.
ScoreJob(context, job) ==
    LET base_score == BaseScore(context, job)
        salary_deviation == SalaryDeviation(Val(context.preferences), job)
        culture_bonus == CultureAlignment(Val(context.preferences), job)
        score == Min(RoundMilli(base_score[1], base_score[2]) + culture_bonus, 1000)
        deviation == salary_deviation + Cardinality(ScoreGap(context, job)) * 50
    IN  <<score, deviation>>

\* _score_job raises (AttributeError) where it calls preferences.get on None
ScoreJobRaises(context, job) == IsNone(context.preferences)

------------------------------------------------------------------------------
(* services/ingestion.py *)

Keywords ==
    {"python", "javascript", "typescript", "sql", "aws", "gcp", "azure", "docker",
     "kubernetes", "django", "fastapi", "react", "node", "ml", "nlp"}

\* ResumeProcessor._extract_skills.  The résumé text is given as the sequence of
\* tokens re.split leaves; the result, a sorted list without repetition, is
\* kept as the set of its elements.
ExtractSkills(content) ==
    LET tokens == LowerAll(Range(content))
    IN  {keyword \in Keywords : keyword \in tokens}

\* QuestionnaireProcessor._build_preference_vector.  The dict the endpoint
\* passes (QuestionnaireSubmission.model_dump()) has no key "salary_min" or
\* "salary_max": there both are None.
BuildPreferenceVector(answers) ==
    LET salary_min == Or(answers.preferred_salary_min, answers.salary_min)
        salary_max == Or(answers.preferred_salary_max, answers.salary_max)
    IN  [salary |->
            IF ~IsNone(salary_min) \/ ~IsNone(salary_max)
            THEN Some([min |-> salary_min, max |-> salary_max])
            ELSE None,
         culture |->
            IF IsNone(answers.culture_keywords) THEN None
            ELSE Some([i \in 1..Len(Val(answers.culture_keywords)) |->
                          Lower(Val(answers.culture_keywords)[i])])]

\* No evaluate request is being handled
Quiet == \A c \in 1..MaxCalls : calls[c].pc = "idle"

\* ResumeProcessor.store_resume (with _ensure_user), as POST /users/{id}/resume
\* calls it.  created_at (datetime.utcnow at the insert) is only ever compared
\* within its table: it is the row's insertion rank there.
StoreResume(user_id, content) ==
    /\ Quiet
    /\ Len(resumes) + Len(questionnaires) < MaxStored
    /\ users' = users \cup {user_id}
    /\ resumes' = Append(resumes,
           [user_id |-> user_id,
            derived_skills |-> Some(ExtractSkills(content)),
            created_at |-> Len(resumes) + 1])
    /\ UNCHANGED <<settings, sample_job_file, questionnaires, listings, calls, nevals, probe>>
    /\ UNCHANGED submissions

\* QuestionnaireProcessor.store_responses (with _ensure_user), as
\* POST /users/{id}/questionnaire calls it
StoreResponses(user_id, answers) ==
    /\ Quiet
    /\ Len(resumes) + Len(questionnaires) < MaxStored
    /\ users' = users \cup {user_id}
    /\ questionnaires' = Append(questionnaires,
           [user_id |-> user_id,
            preference_vector |-> Some(BuildPreferenceVector(answers)),
            created_at |-> Len(questionnaires) + 1])
    /\ UNCHANGED <<settings, sample_job_file, resumes, listings, calls, nevals, probe>>
    /\ UNCHANGED submissions

------------------------------------------------------------------------------
(* services/evaluation.py: evaluate_for_user *)

\* LatestRow with the order ascending: the user's oldest row
LatestRowAscending(rows, user_id) ==
    LET mine == {i \in 1..Len(rows) : rows[i].user_id = user_id}
    IN  IF mine = {} THEN None
        ELSE Some(rows[CHOOSE i \in mine :
                          \A j \in mine : rows[j].created_at >= rows[i].created_at])

\* select ... where user_id = :user_id order by created_at desc limit 1, then
\* scalar_one_or_none(): the row as an optional value
LatestRow(rows, user_id) ==
    LET mine == {i \in 1..Len(rows) : rows[i].user_id = user_id}
    IN  IF mine = {} THEN None
        ELSE Some(rows[CHOOSE i \in mine :
                          \A j \in mine : rows[j].created_at <= rows[i].created_at])

\* BuildContext without its defaults for a missing questionnaire and a null
\* preference vector: preferences is then None
BuildContextNoDefault(user_id) ==
    LET resume == LatestRow(resumes, user_id)
        questionnaire == LatestRow(questionnaires, user_id)
        skills == IF ~IsNone(resume)
                  THEN (IF IsNone(Val(resume).derived_skills) THEN {}
                        ELSE Val(Val(resume).derived_skills))
                  ELSE {}
        preferences == IF ~IsNone(questionnaire)
                       THEN Val(questionnaire).preference_vector
                       ELSE None
    IN  EvaluationContext(skills, preferences)

\* JobEvaluator._build_context
BuildContext(user_id) ==
    LET resume == LatestRow(resumes, user_id)
        questionnaire == LatestRow(questionnaires, user_id)
        skills == IF ~IsNone(resume)
                  THEN (IF IsNone(Val(resume).derived_skills) THEN {}
                        ELSE Val(Val(resume).derived_skills))
                  ELSE {}
        preferences == IF ~IsNone(questionnaire)
                       THEN Val(questionnaire).preference_vector
                       ELSE Some(NoPreferences)
    IN  EvaluationContext(skills, IF IsNone(preferences) THEN Some(NoPreferences) ELSE preferences)

\* JobEvaluator._load_job_samples: ok is FALSE when open or json.load raises
LoadJobSamples ==
    IF ~sample_job_file.exists THEN [ok |-> TRUE, jobs |-> <<>>]
    ELSE IF ~sample_job_file.readable THEN [ok |-> FALSE, jobs |-> <<>>]
    ELSE [ok |-> TRUE, jobs |-> sample_job_file.jobs]

\* Rejected with both comparisons made exclusive of the configured value
RejectedAtBoundary(score, deviation) ==
    \/ deviation >= settings.deviation_tolerance
    \/ score <= settings.evaluation_similarity_threshold

\* the gate of evaluate_for_user: the  continue  after _score_job
Rejected(score, deviation) ==
    \/ deviation > settings.deviation_tolerance
    \/ score < settings.evaluation_similarity_threshold

\* the JobListing evaluate_for_user builds.  overlap_summary and gap_summary
\* are ", ".join(sorted(S)); they are kept as the set S they spell.
NewListing(user_id, context, job, score, deviation) ==
    [user_id |-> user_id,
     external_id |-> job.id,
     salary_min |-> job.salary_min,
     salary_max |-> job.salary_max,
     culture_tags |-> job.culture,
     overlap_summary |-> context.skills \cap Range(job.skills),
     gap_summary |-> Range(job.skills) \ context.skills,
     score |-> score,
     deviation |-> deviation,
     status |-> "queued"]

\* the slot of a request that is not being handled.  trace and before are
\* history: what became of each job the loop reached, and the committed rows of
\* job_listings when the call began.
IdleCall ==
    [pc |-> "idle", user_id |-> "", max_results |-> None, limit |-> 0,
     context |-> EvaluationContext({}, Some(NoPreferences)), job_samples |-> <<>>,
     index |-> 0, matches |-> <<>>, trace |-> <<>>, error |-> "", before |-> <<>>]

\* the rows of  matches, which the session has added
Pending(call) == [i \in 1..Len(call.matches) |-> call.matches[i].listing]

\* end of one iteration that did not break: the for loop goes on or is exhausted
Advance(call) ==
    [call EXCEPT !.index = @ + 1,
                 !.pc = IF call.index >= Len(call.job_samples) THEN "commit" ELSE "loop"]

\* LimitReached with the comparison off by one: the loop stops one match late
LimitReachedLate(call) == call.limit # 0 /\ Len(call.matches) > call.limit

\* if limit and len(matches) >= limit
LimitReached(call) == call.limit # 0 /\ Len(call.matches) >= call.limit

\* ExistingRows with the where clause on the user alone: any listing of the
\* user matches
ExistingRowsAnyId(visible, user_id, external_id) ==
    {i \in 1..Len(visible) : visible[i].user_id = user_id}

\* ExistingRows with the external id column compared with the user id: no row
\* matches
ExistingRowsNeverMatch(visible, user_id, external_id) ==
    {i \in 1..Len(visible) :
        /\ visible[i].user_id = user_id
        /\ visible[i].external_id = Some(user_id)}

\* select(JobListing).where(user_id == :user_id, external_id == :external_id):
\* the positions of the matching rows
ExistingRows(visible, user_id, external_id) ==
    {i \in 1..Len(visible) :
        /\ visible[i].user_id = user_id
        /\ visible[i].external_id = external_id}

\* One iteration of the loop of evaluate_for_user, for the job at call.index.
\* The existence query sees the committed rows and, by the session's autoflush,
\* the rows this call has added; scalar_one_or_none raises on two or more rows.
LoopStep(call, committed) ==
    LET job == call.job_samples[call.index]
        external_id == job.id
        existing == ExistingRows(committed \o Pending(call), call.user_id, external_id)
        sd == ScoreJob(call.context, job)
        added == [call EXCEPT
                    !.matches = Append(@, [index |-> call.index,
                                           listing |-> NewListing(call.user_id, call.context,
                                                                  job, sd[1], sd[2])]),
                    !.trace = Append(@, "retained")]
    IN  IF ~IsNone(external_id) /\ Cardinality(existing) > 1
        THEN [call EXCEPT !.pc = "failed", !.error = "MultipleResultsFound"]
        ELSE IF ~IsNone(external_id) /\ Cardinality(existing) = 1
        THEN Advance([call EXCEPT !.trace = Append(@, "skipped")])
        ELSE IF ScoreJobRaises(call.context, job)
        THEN [call EXCEPT !.pc = "failed", !.error = "AttributeError"]
        ELSE IF Rejected(sd[1], sd[2])
        THEN Advance([call EXCEPT !.trace = Append(@, "rejected")])
        ELSE IF LimitReached(added) THEN [added EXCEPT !.pc = "commit"]
        ELSE Advance(added)

\* the loop of evaluate_for_user run to its end: the call as it is when the
\* loop is left, by exhaustion, by the break or by an exception
RECURSIVE RunLoop(_, _)
RunLoop(call, committed) ==
    IF call.pc = "loop" THEN RunLoop(LoopStep(call, committed), committed) ELSE call

------------------------------------------------------------------------------
(* app/main.py: POST /users/{user_id}/evaluate, in the steps of its awaits *)

\* EvaluationRequest.max_results when the request body does not give it
DefaultMaxResults == 10

\* the limit evaluate_jobs passes:  request.max_results or settings.evaluation_batch_size
RequestLimit(max_results) ==
    LET requested == IF IsNone(max_results) THEN DefaultMaxResults ELSE Val(max_results)
    IN  IF requested # 0 THEN requested ELSE settings.evaluation_batch_size

\* evaluate_jobs up to the loop of evaluate_for_user: the limit, _build_context
\* and _load_job_samples.  Nothing is written.
EvaluateJobs(c, user_id, max_results) ==
    /\ calls[c].pc = "idle"
    /\ \A d \in 1..(c - 1) : calls[d].pc # "idle"
    /\ nevals < MaxEvals
    /\ nevals' = nevals + 1
    /\ LET loaded == LoadJobSamples
           begun == [IdleCall EXCEPT
                        !.user_id = user_id,
                        !.max_results = max_results,
                        !.limit = RequestLimit(max_results),
                        !.before = listings,
                        !.context = BuildContext(user_id)]
       IN  calls' = [calls EXCEPT ![c] =
                IF ~loaded.ok
                THEN [begun EXCEPT !.pc = "failed", !.error = "catalog"]
                ELSE [begun EXCEPT
                        !.job_samples = loaded.jobs,
                        !.index = 1,
                        !.pc = IF loaded.jobs = <<>> THEN "commit" ELSE "loop"]]
    /\ UNCHANGED <<settings, sample_job_file, users, resumes, questionnaires, listings,
                   probe>>
    /\ UNCHANGED submissions

\* one iteration of the loop of evaluate_for_user
EvalStep(c) ==
    /\ calls[c].pc = "loop"
    /\ calls' = [calls EXCEPT ![c] = LoopStep(calls[c], listings)]
    /\ UNCHANGED <<settings, sample_job_file, users, resumes, questionnaires, listings,
                   nevals, probe>>
    /\ UNCHANGED submissions

\* session.commit(), the refreshes and  return matches
EvalCommit(c) ==
    /\ calls[c].pc = "commit"
    /\ listings' = listings \o Pending(calls[c])
    /\ calls' = [calls EXCEPT ![c].pc = "done"]
    /\ UNCHANGED <<settings, sample_job_file, users, resumes, questionnaires,
                   nevals, probe>>
    /\ UNCHANGED submissions

\* the response of evaluate_jobs: the matches, or the error of a call that
\* raised (its session is closed and what it had added is discarded)
EvalReturn(c) ==
    /\ calls[c].pc \in {"done", "failed"}
    /\ calls' = [calls EXCEPT ![c] = IdleCall]
    /\ UNCHANGED <<settings, sample_job_file, users, resumes, questionnaires, listings,
                   nevals, probe>>
    /\ UNCHANGED submissions

------------------------------------------------------------------------------
(* services/application.py: submit_job, in the steps of its awaits *)

\* captcha_selectors of _page_has_captcha, in the order they are queried
captcha_selectors ==
    <<"iframe[src*='recaptcha']", "input[name='captcha']", "div.g-recaptcha">>

\* the awaits of _attempt_submission, in program order: launch stands for
\* entering async_playwright() and chromium.launch, captcha for the queries of
\* _page_has_captcha, stop for leaving the  async with  block
AttemptSteps ==
    <<"launch", "new_context", "new_page", "goto", "fill", "sleep", "click",
      "captcha", "context_close", "browser_close", "stop">>

\* the step after a step that completed
Following(step) ==
    AttemptSteps[(CHOOSE i \in 1..Len(AttemptSteps) : AttemptSteps[i] = step) + 1]

\* how an await can end: it returns, raises PlaywrightError, raises another
\* Exception, or the task is cancelled while it waits (CancelledError, which
\* is no Exception)
Outcomes == {"ok", "PlaywrightError", "Exception", "CancelledError"}

\* the outcomes of the step a submission is at.  asyncio.sleep raises nothing
\* of its own, and _fill_form awaits nothing when answers is empty.
StepOutcomes(sub) ==
    IF sub.pc = "sleep" THEN {"ok", "CancelledError"}
    ELSE IF sub.pc = "fill" /\ ~sub.answers THEN {"ok"}
    ELSE Outcomes

\* ApplicationLog(job_listing_id=..., status="pending") with the column defaults
NewLog(job_listing_id) ==
    [job_listing_id |-> job_listing_id, status |-> "pending", captcha_required |-> FALSE,
     submitted_at |-> None, error_message |-> None]

\* no submit request is being handled.  page is the set of captcha selectors
\* present on the page; suppressed, failures and cancelled are history: the
\* steps whose exception was suppressed, the steps whose exception left
\* _attempt_submission, and whether the task was cancelled.
IdleSubmit ==
    [pc |-> "idle", user_id |-> "", job_listing_id |-> 0, answers |-> FALSE,
     log |-> NewLog(0), queue_items |-> <<>>, page |-> {}, opened |-> FALSE,
     selector |-> 1, captcha_detected |-> FALSE, raised |-> "",
     suppressed |-> {}, failures |-> {}]

\* Suppressed covering _fill_form alone: the click is outside the  with  block
SuppressedFillOnly(step) == step = "fill"

\* the steps inside  with contextlib.suppress(Exception)
Suppressed(step) == step \in {"fill", "sleep", "click"}

\* submit_job after _attempt_submission returned captcha_detected: the body
\* of the try after the await, up to the commit of the finally clause
Concluded(sub, captcha_detected) ==
    IF captcha_detected
    THEN [sub EXCEPT !.log.status = "awaiting_captcha",
                     !.log.captcha_required = TRUE,
                     !.queue_items = Append(@, [job_listing_id |-> sub.job_listing_id]),
                     !.pc = "commit"]
    ELSE [sub EXCEPT !.log.status = "submitted",
                     !.log.submitted_at = Some(nsubmits),
                     !.pc = "commit"]

\* submit_job when _attempt_submission raised at a step: the two except
\* clauses, which a CancelledError passes, up to the commit of the finally
\* clause
Caught(sub, step, exc) ==
    IF exc = "CancelledError"
    THEN [sub EXCEPT !.raised = exc, !.pc = "commit"]
    ELSE [sub EXCEPT !.log.status = "error",
                     !.log.error_message = Some(exc),
                     !.failures = @ \cup {step},
                     !.pc = "commit"]

\* one query_selector of _page_has_captcha that returned
Queried(sub) ==
    IF captcha_selectors[sub.selector] \in sub.page
    THEN [sub EXCEPT !.captcha_detected = TRUE, !.pc = "context_close"]
    ELSE IF sub.selector < Len(captcha_selectors)
    THEN [sub EXCEPT !.selector = @ + 1]
    ELSE [sub EXCEPT !.pc = "context_close"]

\* the submission after the step it is at has ended with outcome; present is
\* the set of captcha selectors on the page a completed goto or click leads to
Attempted(sub, outcome, present) ==
    LET step == sub.pc
    IN  IF outcome = "CancelledError" THEN Caught(sub, step, outcome)
        ELSE IF outcome # "ok"
        THEN IF Suppressed(step)
             THEN [sub EXCEPT !.suppressed = @ \cup {step}, !.pc = "captcha"]
             ELSE Caught(sub, step, outcome)
        ELSE IF step = "captcha" THEN Queried(sub)
        ELSE IF step = "stop" THEN Concluded(sub, sub.captcha_detected)
        ELSE IF step = "goto"
        THEN [sub EXCEPT !.page = present, !.opened = TRUE, !.pc = Following(step)]
        ELSE IF step = "click"
        THEN [sub EXCEPT !.page = present, !.pc = Following(step)]
        ELSE [sub EXCEPT !.pc = Following(step)]

\* the pages of the model, as the sets of captcha selectors present on them
Pages ==
    {{}, {captcha_selectors[1]}, {captcha_selectors[3]},
     {captcha_selectors[2], captcha_selectors[3]}}

\* POST /users/{user_id}/jobs/{job_id}/submit up to the first await of
\* _attempt_submission: the listing looked up by id and user (its id is its
\* position in job_listings), 404 when there is none, answers from the user's
\* latest questionnaire, and submit_job's pending log, added and flushed
SubmitApplication(user_id, job_id) ==
    /\ submit.pc = "idle"
    /\ Quiet
    /\ nsubmits < MaxSubmits
    /\ nsubmits' = nsubmits + 1
    /\ LET found == job_id \in 1..Len(listings) /\ listings[job_id].user_id = user_id
       IN  submit' =
              IF ~found THEN [IdleSubmit EXCEPT !.pc = "not_found", !.user_id = user_id]
              ELSE [IdleSubmit EXCEPT
                      !.pc = "launch",
                      !.user_id = user_id,
                      !.job_listing_id = job_id,
                      !.answers = ~IsNone(LatestRow(questionnaires, user_id)),
                      !.log = NewLog(job_id)]
    /\ UNCHANGED <<settings, sample_job_file, users, resumes, questionnaires, listings,
                   calls, nevals, probe, application_logs, captcha_queue>>

\* one await of _attempt_submission ends
AttemptStep(outcome, present) ==
    /\ submit.pc \in Range(AttemptSteps)
    /\ outcome \in StepOutcomes(submit)
    /\ IF submit.pc \in {"goto", "click"} /\ outcome = "ok"
       THEN present \in Pages
       ELSE present = submit.page
    /\ submit' = Attempted(submit, outcome, present)
    /\ UNCHANGED <<settings, sample_job_file, users, resumes, questionnaires, listings,
                   calls, nevals, probe, application_logs, captcha_queue, nsubmits>>

\* the finally clause: session.commit() writes the log and the queue items the
\* session holds, then the log is refreshed and returned, or the exception that
\* passed the except clauses goes on
SubmitCommit ==
    /\ submit.pc = "commit"
    /\ application_logs' = Append(application_logs, submit.log)
    /\ captcha_queue' = captcha_queue \o submit.queue_items
    /\ submit' = [submit EXCEPT !.pc = IF submit.raised = "" THEN "done" ELSE "raised"]
    /\ UNCHANGED <<settings, sample_job_file, users, resumes, questionnaires, listings,
                   calls, nevals, probe, nsubmits>>

\* the finally clause when session.commit() raises or is itself cancelled:
\* nothing is written
SubmitCommitFails ==
    /\ submit.pc = "commit"
    /\ submit' = [submit EXCEPT !.pc = "rolled_back"]
    /\ UNCHANGED <<settings, sample_job_file, users, resumes, questionnaires, listings,
                   calls, nevals, probe, application_logs, captcha_queue, nsubmits>>

\* the response of submit_application: the ApplicationStatus, the 404 or the
\* error
SubmitReturn ==
    /\ submit.pc \in {"done", "raised", "rolled_back", "not_found"}
    /\ submit' = IdleSubmit
    /\ UNCHANGED <<settings, sample_job_file, users, resumes, questionnaires, listings,
                   calls, nevals, probe, application_logs, captcha_queue, nsubmits>>

------------------------------------------------------------------------------
(* Inputs *)

Users == {"u1", "u2"}

\* résumé texts, as token sequences
Contents == {<<"Python", "SQL">>, <<"AWS", "cobol">>}

\* questionnaire submissions
AnswersPool ==
    {[preferred_salary_min |-> Some(2), preferred_salary_max |-> None,
      salary_min |-> None, salary_max |-> None,
      culture_keywords |-> Some(<<"Remote">>)],
     [preferred_salary_min |-> None, preferred_salary_max |-> None,
      salary_min |-> None, salary_max |-> None,
      culture_keywords |-> None]}

\* max_results of an evaluation request; None: the body does not give it
MaxResultsPool == {None, Some(0), Some(1), Some(-1)}

JobA ==
    [id |-> Some("j1"), skills |-> <<"python", "sql">>, culture |-> <<"remote">>,
     salary_min |-> Some(3), salary_max |-> Some(4)]
JobB ==
    [id |-> Some("j2"), skills |-> <<"python", "aws">>, culture |-> <<>>,
     salary_min |-> None, salary_max |-> None]
JobC ==
    [id |-> None, skills |-> <<"Python", "SQL", "aws">>, culture |-> <<"Agile">>,
     salary_min |-> Some(2), salary_max |-> None]
JobA2 ==
    [id |-> Some("j1"), skills |-> <<"sql">>, culture |-> <<>>,
     salary_min |-> None, salary_max |-> Some(2)]

\* contents of the sample job file
Catalogs == {<<JobA, JobB, JobC>>, <<JobB, JobA2, JobA>>}

SampleFiles ==
    {[exists |-> FALSE, readable |-> FALSE, jobs |-> <<>>]}
    \cup {[exists |-> TRUE, readable |-> FALSE, jobs |-> <<>>]}
    \cup {[exists |-> TRUE, readable |-> TRUE, jobs |-> jobs] : jobs \in Catalogs}

\* Settings: the defaults of app/config.py and two other configurations
SettingsPool ==
    {[evaluation_batch_size |-> 10, evaluation_similarity_threshold |-> 650,
      deviation_tolerance |-> 1000],
     [evaluation_batch_size |-> 2, evaluation_similarity_threshold |-> 500,
      deviation_tolerance |-> 1000],
     [evaluation_batch_size |-> 1, evaluation_similarity_threshold |-> 0,
      deviation_tolerance |-> 50]}

\* probe before _score_job is applied
NoProbe == [applied |-> FALSE, context |-> EvaluationContext({}, Some(NoPreferences)),
            job |-> JobA, score |-> 0, deviation |-> 0, overlap |-> {}, gap |-> {},
            base_score |-> <<0, 1>>, salary_deviation |-> 0, culture_bonus |-> 0,
            matches |-> <<>>]

------------------------------------------------------------------------------
(* The service, handling one request at a time *)

Init ==
    /\ settings \in SettingsPool
    /\ sample_job_file \in SampleFiles
    /\ users = {}
    /\ resumes = <<>>
    /\ questionnaires = <<>>
    /\ listings = <<>>
    /\ calls = [c \in 1..MaxCalls |-> IdleCall]
    /\ nevals = 0
    /\ probe = NoProbe
    /\ application_logs = <<>>
    /\ captcha_queue = <<>>
    /\ submit = IdleSubmit
    /\ nsubmits = 0

Next ==
    \/ \E u \in Users, content \in Contents : StoreResume(u, content)
    \/ \E u \in Users, answers \in AnswersPool : StoreResponses(u, answers)
    \/ \E c \in 1..MaxCalls, u \in Users, m \in MaxResultsPool :
          Quiet /\ EvaluateJobs(c, u, m)
    \/ \E c \in 1..MaxCalls : EvalStep(c)
    \/ \E c \in 1..MaxCalls : EvalCommit(c)
    \/ \E c \in 1..MaxCalls : EvalReturn(c)

Spec == Init /\ [][Next]_vars

------------------------------------------------------------------------------
(* The service with evaluate requests handled concurrently *)

\* Each request has its own session (get_session) and runs as its own task, so
\* the awaits of two evaluate_for_user calls interleave.  A session sees the
\* committed rows and the rows it has added itself, not those another session
\* has not yet committed.
NextConc ==
    \/ \E u \in Users, content \in Contents : StoreResume(u, content)
    \/ \E u \in Users, answers \in AnswersPool : StoreResponses(u, answers)
    \/ \E c \in 1..MaxCalls, u \in Users, m \in MaxResultsPool : EvaluateJobs(c, u, m)
    \/ \E c \in 1..MaxCalls : EvalStep(c)
    \/ \E c \in 1..MaxCalls : EvalCommit(c)
    \/ \E c \in 1..MaxCalls : EvalReturn(c)

SpecConc == Init /\ [][NextConc]_vars

------------------------------------------------------------------------------
(* _score_job applied to one (SkillSet, PreferenceVector, JobRecord) *)

ProbeSkillSets == SUBSET {"python", "sql", "aws"}

\* answers dicts, those of bootstrap_demo_user included (salary_min may be set)
ProbeAnswers ==
    [preferred_salary_min : {None, Some(1), Some(2)},
     preferred_salary_max : {None, Some(4), Some(-1)},
     salary_min : {None, Some(0)},
     salary_max : {None},
     culture_keywords : {None, Some(<<>>), Some(<<"Remote">>),
                         Some(<<"remote", "agile", "fast">>)}]

ProbeJobs ==
    [id : {None},
     skills : {<<>>, <<"python">>, <<"Python", "sql">>, <<"python", "sql", "aws">>},
     culture : {<<>>, <<"Remote">>, <<"agile", "fast">>},
     salary_min : {None, Some(0), Some(1), Some(3)},
     salary_max : {None, Some(2)}]

\* the preference vectors a context can hold: none stored, or one built from answers
ProbePreferences == {NoPreferences} \cup {BuildPreferenceVector(a) : a \in ProbeAnswers}

\* _score_job on one triple: its result and its locals overlap, gap,
\* base_score, salary_deviation and culture_bonus; and
\* matches, what the loop of evaluate_for_user makes of that job as the only
\* one of a catalog, for a user without listings
ScoreProbe(skills, preferences, job) ==
    /\ ~probe.applied
    /\ LET context == EvaluationContext(skills, Some(preferences))
           sd == ScoreJob(context, job)
           call == [IdleCall EXCEPT !.pc = "loop", !.user_id = "u1", !.context = context,
                                    !.job_samples = <<job>>, !.index = 1]
       IN  probe' = [applied |-> TRUE, context |-> context, job |-> job,
                     score |-> sd[1], deviation |-> sd[2],
                     overlap |-> ScoreOverlap(context, job),
                     gap |-> ScoreGap(context, job),
                     base_score |-> BaseScore(context, job),
                     salary_deviation |-> SalaryDeviation(preferences, job),
                     culture_bonus |-> CultureAlignment(preferences, job),
                     matches |-> Pending(LoopStep(call, <<>>))]
    /\ UNCHANGED <<settings, sample_job_file, users, resumes, questionnaires, listings,
                   calls, nevals>>
    /\ UNCHANGED submissions

InitScore ==
    /\ settings = [evaluation_batch_size |-> 10, evaluation_similarity_threshold |-> 650,
                   deviation_tolerance |-> 1000]
    /\ sample_job_file = [exists |-> FALSE, readable |-> FALSE, jobs |-> <<>>]
    /\ users = {}
    /\ resumes = <<>>
    /\ questionnaires = <<>>
    /\ listings = <<>>
    /\ calls = [c \in 1..MaxCalls |-> IdleCall]
    /\ nevals = 0
    /\ probe = NoProbe
    /\ application_logs = <<>>
    /\ captcha_queue = <<>>
    /\ submit = IdleSubmit
    /\ nsubmits = 0

NextScore ==
    /\ ~probe.applied
    /\ \E skills \in ProbeSkillSets, preferences \in ProbePreferences, job \in ProbeJobs :
           ScoreProbe(skills, preferences, job)

SpecScore == InitScore /\ [][NextScore]_vars

------------------------------------------------------------------------------
(* The submit endpoint, one request at a time, on evaluated listings *)

\* job_listings after evaluate_for_user ran once for a user with these skills
\* and no questionnaire, on a catalog, into an empty table
EvaluatedListings(user_id, skills, jobs) ==
    LET call == [IdleCall EXCEPT
                    !.pc = "loop", !.user_id = user_id, !.limit = DefaultMaxResults,
                    !.context = EvaluationContext(skills, Some(NoPreferences)),
                    !.job_samples = jobs, !.index = 1]
    IN  Pending(RunLoop(call, <<>>))

\* the job ids of submit requests: positions in job_listings, and one beyond
JobIds == 1..3

InitSubmit ==
    /\ settings = [evaluation_batch_size |-> 10, evaluation_similarity_threshold |-> 650,
                   deviation_tolerance |-> 1000]
    /\ sample_job_file = [exists |-> TRUE, readable |-> TRUE, jobs |-> <<JobA, JobB, JobC>>]
    /\ users = {"u1"}
    /\ resumes = <<[user_id |-> "u1", derived_skills |-> Some({"python", "sql"}),
                    created_at |-> 1]>>
    /\ questionnaires \in
          {<<>>} \cup {<<[user_id |-> "u1",
                          preference_vector |-> Some(BuildPreferenceVector(answers)),
                          created_at |-> 1]>> : answers \in AnswersPool}
    /\ listings = EvaluatedListings("u1", {"python", "sql"}, <<JobA, JobB, JobC>>)
    /\ calls = [c \in 1..MaxCalls |-> IdleCall]
    /\ nevals = 0
    /\ probe = NoProbe
    /\ application_logs = <<>>
    /\ captcha_queue = <<>>
    /\ submit = IdleSubmit
    /\ nsubmits = 0

NextSubmit ==
    \/ \E u \in Users, job_id \in JobIds : SubmitApplication(u, job_id)
    \/ \E outcome \in Outcomes, present \in Pages : AttemptStep(outcome, present)
    \/ SubmitCommit
    \/ SubmitCommitFails
    \/ SubmitReturn

SpecSubmit == InitSubmit /\ [][NextSubmit]_vars

------------------------------------------------------------------------------
(* Properties *)

CallIds == 1..MaxCalls

\* the catalog positions of the jobs a call retained
RetainedIdx(call) == {call.matches[k].index : k \in 1..Len(call.matches)}

\* the job at catalog position i passes the inclusion gate as the specification
\* states it: deviation <= deviation_tolerance and score >= similarity threshold
PassesGate(call, i) ==
    LET sd == ScoreJob(call.context, call.job_samples[i])
    IN  /\ sd[2] <= settings.deviation_tolerance
        /\ sd[1] >= settings.evaluation_similarity_threshold

\* the job at position i is in the list a finished call returned, and its row,
\* with the score and deviation _score_job gave, is in job_listings
RetainedAndPersisted(call, i) ==
    \E k \in 1..Len(call.matches) :
        /\ call.matches[k].index = i
        /\ Len(listings) >= Len(call.before) + k
        /\ listings[Len(call.before) + k] = call.matches[k].listing
        /\ call.matches[k].listing.score = ScoreJob(call.context, call.job_samples[i])[1]
        /\ call.matches[k].listing.deviation = ScoreJob(call.context, call.job_samples[i])[2]

\* C1: when evaluate_for_user has returned, every catalog job it scored (reached
\* by the loop and not skipped as a duplicate) is returned and persisted if and
\* only if its deviation <= deviation_tolerance and its score >=
\* evaluation_similarity_threshold.
C1_RetainedIffGate ==
    \A c \in CallIds :
        calls[c].pc = "done" =>
            \A i \in 1..Len(calls[c].trace) :
                calls[c].trace[i] # "skipped" =>
                    (RetainedAndPersisted(calls[c], i) <=> PassesGate(calls[c], i))

\* a finished call that retained one job it scored and rejected another
C1_Witness ==
    \E c \in CallIds :
        /\ calls[c].pc = "done"
        /\ \E i, j \in 1..Len(calls[c].trace) :
              /\ calls[c].trace[i] = "retained"
              /\ RetainedAndPersisted(calls[c], i)
              /\ calls[c].trace[j] = "rejected"

\* the job at catalog position i carries an external id that a JobListing of
\* the call's user, committed before the call began, already has
DupBefore(call, i) ==
    /\ ~IsNone(call.job_samples[i].id)
    /\ \E r \in 1..Len(call.before) :
          /\ call.before[r].user_id = call.user_id
          /\ call.before[r].external_id = call.job_samples[i].id

\* C2: a catalog job whose external id a listing of the same user already has
\* is skipped without being scored: it is not among the matches and no row is
\* added for it; the call does not fail; and the skip does not end the loop
\* (the loop goes on to the next job, and ends only when the catalog is
\* exhausted or the limit is reached).
C2_DuplicateSkipped ==
    \A c \in CallIds :
        LET call == calls[c]
        IN  /\ \A i \in 1..Len(call.trace) :
                  DupBefore(call, i) =>
                      /\ call.trace[i] = "skipped"
                      /\ i \notin RetainedIdx(call)
            /\ (\E i \in 1..Len(call.job_samples) : DupBefore(call, i)) => call.pc # "failed"
            /\ (/\ call.trace # <<>>
                /\ call.trace[Len(call.trace)] = "skipped"
                /\ Len(call.trace) < Len(call.job_samples)) => call.pc = "loop"
            /\ call.pc = "done" =>
                  /\ listings = call.before \o Pending(call)
                  /\ Len(call.trace) = Len(call.job_samples) \/ LimitReached(call)

\* a finished call that skipped a duplicate and went on to score a later job
C2_Witness ==
    \E c \in CallIds :
        /\ calls[c].pc = "done"
        /\ \E i, j \in 1..Len(calls[c].trace) :
              /\ DupBefore(calls[c], i)
              /\ calls[c].trace[i] = "skipped"
              /\ i < j
              /\ calls[c].trace[j] \in {"retained", "rejected"}

\* the matches of a call are in catalog order
InCatalogOrder(call) ==
    \A k, l \in 1..Len(call.matches) :
        k < l => call.matches[k].index < call.matches[l].index

\* the job at position i passes the gate and is no duplicate: its external id,
\* if it has one, is on no listing the user had before the call and on no job
\* retained from an earlier position
Eligible(call, i) ==
    /\ PassesGate(call, i)
    /\ ~DupBefore(call, i)
    /\ \/ IsNone(call.job_samples[i].id)
       \/ \A j \in RetainedIdx(call) :
             j < i => call.job_samples[j].id # call.job_samples[i].id

\* the retained jobs are the first eligible ones in catalog order
FirstEligibleRetained(call) ==
    /\ \A i \in RetainedIdx(call) : Eligible(call, i)
    /\ \A i, j \in 1..Len(call.job_samples) :
          (i < j /\ j \in RetainedIdx(call) /\ Eligible(call, i)) => i \in RetainedIdx(call)

\* C3 as claimed: the returned list is in catalog order, its length never
\* exceeds the limit passed in (an empty list exceeds no limit), and the
\* retained jobs are the first ones in catalog order that pass the gate.
C3_AsClaimed ==
    \A c \in CallIds :
        calls[c].pc = "done" =>
            /\ InCatalogOrder(calls[c])
            /\ calls[c].matches = <<>> \/ Len(calls[c].matches) <= calls[c].limit
            /\ FirstEligibleRetained(calls[c])

\* C3, amended: the returned list is in catalog order and the retained jobs
\* are the first ones in catalog order that pass the gate (duplicates apart);
\* for a positive limit its length never exceeds the limit, and for a negative
\* limit, which the endpoint accepts, it never exceeds 1 (a limit of 0 does
\* not cut the list); a job that passes the gate is left out only when the
\* list already has that length.
C3_OrderedAndTruncated ==
    \A c \in CallIds :
        LET call == calls[c]
            cap == IF call.limit > 0 THEN call.limit ELSE 1
        IN  call.pc = "done" =>
                /\ InCatalogOrder(call)
                /\ call.limit # 0 => Len(call.matches) <= cap
                /\ FirstEligibleRetained(call)
                /\ (call.limit = 0 \/ Len(call.matches) < cap) =>
                      \A i \in 1..Len(call.job_samples) :
                          Eligible(call, i) => i \in RetainedIdx(call)

\* a finished call whose list of two or more matches was cut at a positive
\* limit, leaving out a later job that passes the gate
C3_Witness ==
    \E c \in CallIds :
        /\ calls[c].pc = "done"
        /\ calls[c].limit >= 2
        /\ Len(calls[c].matches) = calls[c].limit
        /\ \E i \in 1..Len(calls[c].job_samples) :
              Eligible(calls[c], i) /\ i \notin RetainedIdx(calls[c])

\* C4 as claimed: a request that does not specify max_results returns at most
\* evaluation_batch_size matches.
C4_AsClaimed ==
    \A c \in CallIds :
        (calls[c].pc = "done" /\ IsNone(calls[c].max_results)) =>
            Len(calls[c].matches) <= settings.evaluation_batch_size

\* C6 as claimed: when the catalog file is missing, or exists but cannot be read
\* or parsed, evaluate_for_user does not fail, returns an empty list and
\* persists nothing.
C6_AsClaimed ==
    (~sample_job_file.exists \/ ~sample_job_file.readable) =>
        \A c \in CallIds :
            /\ calls[c].pc # "failed"
            /\ calls[c].matches = <<>>
            /\ calls[c].pc = "done" => listings = calls[c].before

\* C5: the score _score_job returns lies in [0, 1] and the deviation is >= 0,
\* for every SkillSet, PreferenceVector and JobRecord; and so do the score and
\* deviation of every JobListing built from them.
C5_ScoreInRange ==
    /\ probe.applied =>
          /\ 0 <= probe.score /\ probe.score <= 1000
          /\ probe.deviation >= 0
          /\ \A k \in 1..Len(probe.matches) :
                /\ 0 <= probe.matches[k].score /\ probe.matches[k].score <= 1000
                /\ probe.matches[k].deviation >= 0
    /\ \A r \in 1..Len(listings) :
          /\ 0 <= listings[r].score /\ listings[r].score <= 1000
          /\ listings[r].deviation >= 0

\* _score_job applied where the cap at 1.0 acts (every job skill held, and a
\* culture bonus on top), the job being retained
C5_Witness ==
    /\ probe.applied
    /\ probe.job.skills # <<>>
    /\ probe.gap = {}
    /\ CultureAlignment(Val(probe.context.preferences), probe.job) > 0
    /\ probe.score = 1000
    /\ probe.matches # <<>>

\* the user has no stored résumé, or only ones whose derived_skills is null
NoSkillsStored(user_id) ==
    \A r \in 1..Len(resumes) :
        resumes[r].user_id = user_id => IsNone(resumes[r].derived_skills)

\* the user has no stored questionnaire, or only ones whose preference_vector
\* is null
NoPreferencesStored(user_id) ==
    \A r \in 1..Len(questionnaires) :
        questionnaires[r].user_id = user_id => IsNone(questionnaires[r].preference_vector)

\* the job at position i was a duplicate when the loop reached it
DupAt(call, i) ==
    \/ DupBefore(call, i)
    \/ /\ ~IsNone(call.job_samples[i].id)
       /\ \E j \in RetainedIdx(call) :
             j < i /\ call.job_samples[j].id = call.job_samples[i].id

\* C7: for a user without résumé the context has the empty SkillSet, for a user
\* without questionnaire the empty PreferenceVector; and the call then never
\* raises in its loop: every catalog job is scored, unless it is a duplicate or
\* the limit has ended the loop before it.  (While a call is handled the tables
\* do not change, so they are those _build_context read.)
C7_MissingContext ==
    \A c \in CallIds :
        LET call == calls[c]
        IN  call.pc # "idle" =>
                /\ NoSkillsStored(call.user_id) => call.context.skills = {}
                /\ NoPreferencesStored(call.user_id) =>
                      call.context.preferences = Some(NoPreferences)
                /\ (NoSkillsStored(call.user_id) \/ NoPreferencesStored(call.user_id)) =>
                      /\ call.pc = "failed" => call.error = "catalog"
                      /\ \A i \in 1..Len(call.trace) :
                            call.trace[i] = "skipped" => DupAt(call, i)
                      /\ call.pc = "done" =>
                            Len(call.trace) = Len(call.job_samples) \/ LimitReached(call)

\* a finished call of a user with neither résumé nor questionnaire that scored
\* every job of a catalog of two or more
C7_Witness ==
    \E c \in CallIds :
        /\ calls[c].pc = "done"
        /\ \A r \in 1..Len(resumes) : resumes[r].user_id # calls[c].user_id
        /\ \A r \in 1..Len(questionnaires) : questionnaires[r].user_id # calls[c].user_id
        /\ Len(calls[c].job_samples) >= 2
        /\ Len(calls[c].trace) = Len(calls[c].job_samples)
        /\ \A i \in 1..Len(calls[c].trace) : calls[c].trace[i] \in {"retained", "rejected"}
        /\ \E i \in 1..Len(calls[c].trace) : calls[c].trace[i] = "rejected"

\* the row of the user that was stored last, by position in the table
LastStored(rows, user_id) ==
    LET mine == {i \in 1..Len(rows) : rows[i].user_id = user_id}
    IN  IF mine = {} THEN None
        ELSE Some(rows[CHOOSE i \in mine : \A j \in mine : j <= i])

\* the context of a call being handled is that of its user's last stored résumé
\* and last stored questionnaire (the tables do not change while it is handled)
ContextIsLatest ==
    \A c \in CallIds :
        LET call == calls[c]
            resume == LastStored(resumes, call.user_id)
            questionnaire == LastStored(questionnaires, call.user_id)
        IN  call.pc # "idle" =>
                /\ call.context.skills =
                      IF IsNone(resume) THEN {} ELSE Val(Val(resume).derived_skills)
                /\ call.context.preferences =
                      IF IsNone(questionnaire) THEN Some(NoPreferences)
                      ELSE Val(questionnaire).preference_vector

\* the step in which a call builds its context leaves every table as it was
ContextStepWritesNothing ==
    (\E c \in CallIds : calls[c].pc = "idle" /\ calls'[c].pc # "idle") => db' = db

\* C8: after any sequence of store_resume and store_responses calls,
\* _build_context returns the skills of the user's most recently created Resume
\* and the preference vector of the user's most recently created
\* QuestionnaireResponse, and it writes nothing.
C8_LatestContextNoWrite == []ContextIsLatest /\ [][ContextStepWritesNothing]_vars

\* a call being handled for a user who stored two résumés with different skills
C8_Witness ==
    \E c \in CallIds :
        /\ calls[c].pc # "idle"
        /\ \E r1, r2 \in 1..Len(resumes) :
              /\ r1 < r2
              /\ resumes[r1].user_id = calls[c].user_id
              /\ resumes[r2].user_id = calls[c].user_id
              /\ resumes[r1].derived_skills # resumes[r2].derived_skills
              /\ calls[c].context.skills = Val(resumes[r2].derived_skills)

\* _score_job was applied to an empty SkillSet and a job with skills
EmptySkillSetProbe ==
    /\ probe.applied
    /\ probe.context.skills = {}
    /\ probe.job.skills # <<>>

\* C9 as claimed: given an empty SkillSet and a job with non-empty skills, for
\* every PreferenceVector the score is 0 and the gap is the full set of job
\* skills.
C9_AsClaimed ==
    EmptySkillSetProbe =>
        /\ probe.score = 0
        /\ probe.gap = LowerAll(Range(probe.job.skills))

\* C9, amended: given an empty SkillSet and a job with non-empty skills, the
\* base score is 0, so the score is the culture bonus alone: 0 when the
\* preferences and the job share no culture keyword, else 0.2 times the share
\* of the desired keywords the job has, rounded to 3 decimals; the gap is the
\* full set of (lowercased) job skills.
C9_EmptySkillSet ==
    EmptySkillSetProbe =>
        LET desired == {Lower(k) : k \in Range(GetList(Val(probe.context.preferences).culture))}
            shared == desired \cap {Lower(k) : k \in Range(probe.job.culture)}
        IN  /\ probe.overlap = {}
            /\ probe.score =
                  IF shared = {} THEN 0
                  ELSE RoundMilli(2 * Cardinality(shared), 10 * Cardinality(desired))
            /\ probe.score <= 200
            /\ probe.gap = LowerAll(Range(probe.job.skills))

\* _score_job applied to an empty SkillSet, a job with skills and preferences
\* that share a culture keyword with the job: the score is not 0
C9_Witness ==
    /\ EmptySkillSetProbe
    /\ probe.score > 0
    /\ probe.gap = LowerAll(Range(probe.job.skills))

\* the sequences that are permutations of the sequence s
Reorderings(s) ==
    LET n == Len(s)
        bijections == {f \in [1..n -> 1..n] : \A i, j \in 1..n : f[i] = f[j] => i = j}
    IN  {[i \in 1..n |-> s[f[i]]] : f \in bijections}

\* the job records a call retained
RetainedJobs(call) == {call.job_samples[i] : i \in RetainedIdx(call)}

\* what the call would have retained with the catalog jobs, all else (context,
\* limit, configuration, the listings stored before the call) being the same
RetainedWith(call, jobs) ==
    LET begun == [call EXCEPT !.job_samples = jobs, !.index = 1, !.matches = <<>>,
                              !.trace = <<>>, !.error = "",
                              !.pc = IF jobs = <<>> THEN "commit" ELSE "loop"]
    IN  RetainedJobs(RunLoop(begun, call.before))

\* each job of the catalog is retained exactly if it is retained as the only
\* job of a catalog, and every permutation of the catalog retains the same set
OrderIndependent(call) ==
    /\ \A i \in 1..Len(call.job_samples) :
          (i \in RetainedIdx(call)) <=> (RetainedWith(call, <<call.job_samples[i]>>) # {})
    /\ \A jobs \in Reorderings(call.job_samples) :
          RetainedWith(call, jobs) = RetainedJobs(call)

\* no two jobs of the catalog share an external id
DistinctIds(jobs) ==
    \A i, j \in 1..Len(jobs) :
        (i < j /\ ~IsNone(jobs[i].id)) => jobs[i].id # jobs[j].id

\* an iteration of the loop changes neither the context nor the job records
ScoringMutatesNothing ==
    \A c \in CallIds :
        calls[c].pc = "loop" =>
            /\ calls'[c].context = calls[c].context
            /\ calls'[c].job_samples = calls[c].job_samples

\* every finished call is order independent
AlwaysOrderIndependent ==
    \A c \in CallIds : calls[c].pc = "done" => OrderIndependent(calls[c])

\* C10 as claimed: whether a catalog job is retained depends only on the
\* context, that job, the configuration and the listings stored before the
\* call, not on the position or presence of other jobs, so any permutation of
\* the catalog retains the same set; scoring mutates neither the context nor
\* the job record.
C10_AsClaimed == []AlwaysOrderIndependent /\ [][ScoringMutatesNothing]_vars

\* a finished call is order independent when its loop reached every job of
\* the catalog and no two jobs of the catalog share an external id
OrderIndependentUncut ==
    \A c \in CallIds :
        (/\ calls[c].pc = "done"
         /\ Len(calls[c].trace) = Len(calls[c].job_samples)
         /\ DistinctIds(calls[c].job_samples)) => OrderIndependent(calls[c])

\* C10, amended: provided the limit does not cut the loop short (the loop
\* reaches every job of the catalog) and no two jobs of the catalog share an
\* external id, whether a job is retained does not depend on the position or
\* presence of other jobs, and any permutation of the catalog retains the same
\* set; scoring mutates neither the context nor the job record.
C10_OrderIndependence == []OrderIndependentUncut /\ [][ScoringMutatesNothing]_vars

\* a finished call whose loop reached all three jobs of a catalog without a
\* shared id, retaining two or more and rejecting one
C10_Witness ==
    \E c \in CallIds :
        /\ calls[c].pc = "done"
        /\ Len(calls[c].job_samples) >= 3
        /\ Len(calls[c].trace) = Len(calls[c].job_samples)
        /\ DistinctIds(calls[c].job_samples)
        /\ Len(calls[c].matches) >= 2
        /\ \E i \in 1..Len(calls[c].trace) : calls[c].trace[i] = "rejected"

------------------------------------------------------------------------------
(* _salary_deviation *)

\* the first of a sequence of optional numbers that is neither None nor 0
RECURSIVE FirstTruthy(_)
FirstTruthy(os) ==
    IF os = <<>> THEN None
    ELSE IF Truthy(Head(os)) THEN Head(os)
    ELSE FirstTruthy(Tail(os))

\* the number an optional number stands for when None counts as 0
OrZero(o) == IF IsNone(o) THEN 0 ELSE Val(o)

\* the salary preference and the job's salary fields of the probe
ProbeSalaryPref == probe.context.preferences[1].salary
ProbeHasSalaryData == ~IsNone(probe.job.salary_min) \/ ~IsNone(probe.job.salary_max)

\* |job_value - target| / max(target, 1), rounded, in thousandths
DeviationFrom(job_value, target) == RoundMilli(Abs(job_value - target), Max(target, 1))

\* C11 as claimed: _salary_deviation returns 0 if there is no salary
\* preference; 0.5 if the job has no salary data; otherwise
\* |job_value - target| / max(target, 1), where target falls back through the
\* preference's min, then max, then 0, and job_value through the job's
\* salary_min, then salary_max, then 0.
C11_AsClaimed ==
    probe.applied =>
        probe.salary_deviation =
            IF IsNone(ProbeSalaryPref) THEN 0
            ELSE IF ~ProbeHasSalaryData THEN 500
            ELSE DeviationFrom(
                    OrZero(FirstTruthy(<<probe.job.salary_min, probe.job.salary_max>>)),
                    OrZero(FirstTruthy(<<Val(ProbeSalaryPref).min, Val(ProbeSalaryPref).max>>)))

\* C11, amended: _salary_deviation returns 0 if there is no salary preference;
\* 0.5 if the job has neither salary_min nor salary_max; otherwise, with target
\* the first non-zero value among the preference's min, its max, the job's
\* salary_min and its salary_max (0 if there is none) and job_value the first
\* non-zero value among the job's salary_min and salary_max (target if there
\* is none), it returns 0 when target is 0 and
\* |job_value - target| / max(target, 1) otherwise; preference {min: 2} and
\* job salary_min 3 give 0.5.
C11_SalaryDeviation ==
    probe.applied =>
        LET target == OrZero(FirstTruthy(<<Val(ProbeSalaryPref).min, Val(ProbeSalaryPref).max,
                                           probe.job.salary_min, probe.job.salary_max>>))
            own == FirstTruthy(<<probe.job.salary_min, probe.job.salary_max>>)
            job_value == IF IsNone(own) THEN target ELSE Val(own)
        IN  /\ IsNone(ProbeSalaryPref) => probe.salary_deviation = 0
            /\ (~IsNone(ProbeSalaryPref) /\ ~ProbeHasSalaryData) => probe.salary_deviation = 500
            /\ (~IsNone(ProbeSalaryPref) /\ ProbeHasSalaryData) =>
                  probe.salary_deviation =
                      IF target = 0 THEN 0 ELSE DeviationFrom(job_value, target)
            /\ (/\ ~IsNone(ProbeSalaryPref)
                /\ Val(ProbeSalaryPref).min = Some(2)
                /\ probe.job.salary_min = Some(3)) => probe.salary_deviation = 500

\* the example of the claim, in the model's unit: preference min 2 against a
\* job with salary_min 3 and deviation 0.5
C11_Witness ==
    /\ probe.applied
    /\ ~IsNone(ProbeSalaryPref)
    /\ Val(ProbeSalaryPref).min = Some(2)
    /\ probe.job.salary_min = Some(3)
    /\ probe.salary_deviation = 500

------------------------------------------------------------------------------
(* overlap_summary and gap_summary *)

\* C12 as claimed: for every retained JobListing, overlap_summary and
\* gap_summary list exactly the overlap and gap sets _score_job used to compute
\* its score and deviation (SkillSet with, and lowercased job skills without,
\* the SkillSet), whatever the letter case of the catalog's skill strings.
C12_AsClaimed ==
    \A c \in CallIds :
        \A k \in 1..Len(calls[c].matches) :
            LET job == calls[c].job_samples[calls[c].matches[k].index]
                listing == calls[c].matches[k].listing
            IN  /\ listing.overlap_summary = ScoreOverlap(calls[c].context, job)
                /\ listing.gap_summary = ScoreGap(calls[c].context, job)

------------------------------------------------------------------------------
(* the score of _score_job *)

\* x is num / den rounded to three decimals, in thousandths (den > 0)
Nearest(x, num, den) == 2 * Abs(x * den - 1000 * num) <= den

\* the sets of the probe, from its inputs
ProbeJobSkills == {Lower(s) : s \in Range(probe.job.skills)}
ProbeDesiredCulture ==
    {Lower(kw) : kw \in Range(GetList(probe.context.preferences[1].culture))}
ProbeJobCulture == {Lower(kw) : kw \in Range(probe.job.culture)}

\* C13: _score_job computes score = min(base_score + culture_bonus, 1.0),
\* rounded to three decimals, where base_score = |overlap| / |jobSkills| and
\* is 0 when the job lists no skills, and culture_bonus =
\* |desired_culture \cap job_culture| / |desired_culture| x 0.2 and is 0 when
\* either culture set is empty; every division has a non-zero denominator.
C13_ScoreFormula ==
    probe.applied =>
        LET n == Cardinality(ProbeJobSkills)
            k == Cardinality(probe.context.skills \cap ProbeJobSkills)
            d == Cardinality(ProbeDesiredCulture)
            c == Cardinality(ProbeDesiredCulture \cap ProbeJobCulture)
        IN  /\ probe.base_score[2] > 0
            /\ n = 0 => probe.base_score[1] = 0
            /\ n > 0 => probe.base_score[1] * n = k * probe.base_score[2]
            /\ (d = 0 \/ ProbeJobCulture = {}) => probe.culture_bonus = 0
            /\ (d > 0 /\ ProbeJobCulture # {}) => Nearest(probe.culture_bonus, 2 * c, 10 * d)
            /\ probe.score <= 1000
            /\ probe.score < 1000 =>
                  Nearest(probe.score - probe.culture_bonus,
                          probe.base_score[1], probe.base_score[2])
            /\ probe.score = 1000 =>
                  \E x \in 0..1000 :
                      /\ Nearest(x, probe.base_score[1], probe.base_score[2])
                      /\ x + probe.culture_bonus >= 1000

\* a job whose skills are all held and that shares a culture keyword: base
\* score 1, bonus above 0, score capped at 1
C13_Witness ==
    /\ probe.applied
    /\ ProbeJobSkills # {}
    /\ ProbeJobSkills \subseteq probe.context.skills
    /\ probe.culture_bonus > 0
    /\ probe.score = 1000

------------------------------------------------------------------------------
(* the deviation of _score_job *)

\* the skill lists a job of the probe sets can have
ProbeSkillLists == {job.skills : job \in ProbeJobs}

\* the probe's job with another skill list: the same salary fields
ProbeJobWith(skill_list) == [probe.job EXCEPT !.skills = skill_list]

\* the skill sets and skill lists of the probe sets that leave as many gap
\* skills as the probe or more
MoreGapProbes ==
    {sj \in ProbeSkillSets \X ProbeSkillLists :
        Cardinality(ScoreGap(EvaluationContext(sj[1], probe.context.preferences),
                             ProbeJobWith(sj[2])))
            >= Cardinality(probe.gap)}

\* C14: _score_job computes deviation = salary_deviation + 0.05 x |gap|; with
\* no salary preference the deviation is exactly 0.05 per missing skill
\* (SkillSet {python, sql} against job skills [python, sql, aws] with no
\* culture or salary preference gives score 0.667 and deviation 0.05); and the
\* deviation is non-decreasing in the number of gap skills: with the same
\* preferences and job salary, a SkillSet and job that leave at least as many
\* gap skills have at least the deviation.
C14_Deviation ==
    probe.applied =>
        /\ probe.gap = ProbeJobSkills \ probe.context.skills
        /\ probe.deviation = probe.salary_deviation + 50 * Cardinality(probe.gap)
        /\ IsNone(probe.context.preferences[1].salary) =>
              probe.deviation = 50 * Cardinality(probe.gap)
        /\ (/\ probe.context = EvaluationContext({"python", "sql"}, Some(NoPreferences))
            /\ probe.job.skills = <<"python", "sql", "aws">>) =>
              /\ probe.score = 667
              /\ probe.deviation = 50
        /\ \A sj \in MoreGapProbes :
              ScoreJob(EvaluationContext(sj[1], probe.context.preferences),
                       ProbeJobWith(sj[2]))[2] >= probe.deviation

\* the example of the claim: {python, sql} against [python, sql, aws] without
\* preferences, scored 0.667 with deviation 0.05
C14_Witness ==
    /\ probe.applied
    /\ probe.context = EvaluationContext({"python", "sql"}, Some(NoPreferences))
    /\ probe.job.skills = <<"python", "sql", "aws">>
    /\ probe.gap = {"aws"}
    /\ probe.score = 667
    /\ probe.deviation = 50

------------------------------------------------------------------------------
(* submit_job *)

\* how many committed logs await a captcha
AwaitingCaptcha ==
    Cardinality({i \in 1..Len(application_logs) :
                    application_logs[i].status = "awaiting_captcha"})

\* C15 as claimed: every ApplicationLog committed by submit_job carries one of
\* the statuses "submitted", "error" and "awaiting_captcha" and never remains
\* "pending", whatever the outcome of the browser attempt (an exception or a
\* cancellation included); captcha_required is set, and a CaptchaQueueItem
\* was added, iff the status is "awaiting_captcha"; submitted_at is set iff
\* the status is "submitted".
C15_AsClaimed ==
    /\ \A i \in 1..Len(application_logs) :
          LET log == application_logs[i]
          IN  /\ log.status \in {"submitted", "error", "awaiting_captcha"}
              /\ log.captcha_required <=> log.status = "awaiting_captcha"
              /\ ~IsNone(log.submitted_at) <=> log.status = "submitted"
    /\ Len(captcha_queue) = AwaitingCaptcha

\* the steps of _attempt_submission outside the fill-and-click block
OutsideSteps == Range(AttemptSteps) \ {"fill", "sleep", "click"}

\* submit_job has set the status of its log and the task was not cancelled
Settled ==
    /\ submit.pc \in {"commit", "done", "rolled_back"}
    /\ submit.raised = ""

\* C17: in submit_job an exception raised while filling the form fields or
\* clicking Submit is suppressed and never yields status "error": when no step
\* outside the fill-and-click block failed, the page was opened and the
\* recorded status is decided by captcha detection alone ("awaiting_captcha"
\* if one of the captcha selectors is present on the page, otherwise
\* "submitted"), whether or not fill or click failed; and status "error"
\* arises only from a failure outside that block (browser launch, page load,
\* captcha query, close).  A cancelled task is the case of C15.
C17_SuppressedFailures ==
    /\ Settled =>
          /\ submit.failures \subseteq OutsideSteps
          /\ submit.log.status = "error" <=> submit.failures # {}
          /\ submit.failures = {} =>
                /\ submit.opened
                /\ submit.log.status =
                      IF submit.page \cap Range(captcha_selectors) # {}
                      THEN "awaiting_captcha" ELSE "submitted"
    /\ submit.pc = "done" =>
          /\ application_logs # <<>>
          /\ application_logs[Len(application_logs)] = submit.log

\* a committed submission whose click failed and was suppressed, recorded as
\* submitted on a page without captcha
C17_Witness ==
    /\ submit.pc = "done"
    /\ "click" \in submit.suppressed
    /\ submit.failures = {}
    /\ submit.page = {}
    /\ application_logs[Len(application_logs)].status = "submitted"

------------------------------------------------------------------------------
(* one listing per user and external id *)

\* the pairs of rows of job_listings with the same user and the same
\* non-empty external id
DuplicateListings ==
    {ij \in (1..Len(listings)) \X (1..Len(listings)) :
        /\ ij[1] < ij[2]
        /\ listings[ij[1]].user_id = listings[ij[2]].user_id
        /\ ~IsNone(listings[ij[1]].external_id)
        /\ listings[ij[1]].external_id = listings[ij[2]].external_id}

\* C16 as claimed: after any sequence of evaluate_for_user calls, two calls
\* for the same user whose steps interleave included, there is at most one
\* JobListing per (user_id, non-empty external_id); a catalog that has the same
\* id twice also yields at most one listing for it.
C16_AsClaimed == DuplicateListings = {}

====
